---- MODULE Spec2Model ----
(***************************************************************************)
(* Model of server(1).js: an express/mongoose REST backend.  Every await   *)
(* on a store operation is one atomic step; the handlers of different      *)
(* requests interleave between their steps.  A request occupies one slot   *)
(* of reqs from its first store operation to its response.                 *)
(***************************************************************************)
EXTENDS Integers, FiniteSets, Sequences, TLC

\* Number of requests one behaviour issues (all of them may overlap).
MaxReq == 2

Slots == 1..MaxReq

\* Identifiers (ObjectIds, all distinct) of the documents the store holds when
\* the server starts: two users, two schools with one class each, one teacher
\* in each class.
UserIds == {1, 2}
SchoolIds == {3, 4}
ClassIds == {5, 6}
TeacherIds == {7, 8}

\* Request bodies the clients send. A rating value is a real number; the
\* model keeps it in half units (the integer 2 * value), so that 2.5 is 5:
\* the ratings sent are 0, 2, 2.5, 5 and 6.
RatingInputs == {0, 4, 5, 10, 12}
TextInputs == {"good"}

\* A body field of PUT /api/admin/config: absent, false or true.
Undefined == "undefined"
BodyFlags == {"undefined", "false", "true"}

Null == 0

VARIABLES users, schools, classes, teachers, reviews, ratings, discussions,
          config, nextId, reqs, sent

vars == <<users, schools, classes, teachers, reviews, ratings, discussions,
          config, nextId, reqs, sent>>

store == <<users, schools, classes, teachers, reviews, ratings, discussions,
           config, nextId>>

-----------------------------------------------------------------------------
\* Schemas (documents as records; collections as sets or id-indexed functions)

UserName(u) == IF u = 1 THEN "alice" ELSE "bob"

\* UserSchema: school, class unset and isSetup false at registration.
UserSchema(u) ==
  [username |-> UserName(u), school |-> Null, class |-> Null, isSetup |-> FALSE]

\* The users of the initial store: user 1 has registered, user 2 has also
\* completed setup (school 4, class 6).
InitialUser(u) ==
  IF u = 2
    THEN [UserSchema(u) EXCEPT !.school = 4, !.class = 6, !.isSetup = TRUE]
    ELSE UserSchema(u)

\* ClassSchema: class 5 belongs to school 3, class 6 to school 4.
ClassSchema(c) == [school |-> c - 2]

\* averageRating is a real number, kept as a reduced fraction <<num, den>>.
Zero == <<0, 1>>

\* TeacherSchema: averageRating and totalRatings default to 0; teacher 7 is in
\* class 5 of school 3, teacher 8 in class 6 of school 4.
TeacherSchema(t) ==
  [class |-> t - 2, school |-> t - 4, imageUrl |-> "img", averageRating |-> Zero,
   totalRatings |-> 0]

\* Date.now / new Date(): a time later than every time stored so far.
RECURSIVE Latest(_)
Latest(S) ==
  IF S = {} THEN 0
  ELSE LET r == CHOOSE x \in S : TRUE
           m == Latest(S \ {r})
       IN IF r.updatedAt > m THEN r.updatedAt ELSE m

Now == Latest(reviews) + 1

ReviewSchema(id, t, u, name, text) ==
  [id |-> id, teacher |-> t, user |-> u, username |-> name, text |-> text,
   createdAt |-> Now, updatedAt |-> Now]

RatingSchema(id, t, u, r) == [id |-> id, teacher |-> t, user |-> u, rating |-> r]

DiscussionSchema(id, u, name) == [id |-> id, user |-> u, username |-> name]

AdminConfigSchema == [anonymousReviews |-> FALSE, hideTeacherImages |-> FALSE]

\* RatingSchema.rating: { type: Number, min: 1, max: 5 }, in half units
RatingValid(r) == r >= 2 /\ r <= 10

-----------------------------------------------------------------------------
\* Requests

\* op, pc: the route and the next store operation of its handler; uid: the
\* token's userId; a, b, txt: path parameter and body; the rest are the
\* handler's local variables.
\* The Authorization header of a request: absent, a token not signed with
\* JWT_SECRET (whatever its payload says), or a signed one with the payload
\* of POST /api/login ({userId}) or of POST /api/admin/login ({isAdmin: true}).
MissingToken == [kind |-> "missing", userId |-> Null, isAdmin |-> FALSE]

ForgedToken == [kind |-> "forged", userId |-> 1, isAdmin |-> TRUE]

UserToken(u) == [kind |-> "signed", userId |-> u, isAdmin |-> FALSE]

AdminToken == [kind |-> "signed", userId |-> Null, isAdmin |-> TRUE]

NoReq ==
  [op |-> "none", pc |-> "idle", uid |-> Null, a |-> Null, b |-> Null,
   txt |-> "", found |-> Null, sum |-> 0, cnt |-> 0, uname |-> "",
   anon |-> FALSE, hide |-> FALSE, img |-> "", at |-> 0,
   tok |-> MissingToken]

DoneReq == [NoReq EXCEPT !.pc = "done"]

NewReq(op, pc, u, a, b, txt) ==
  [NoReq EXCEPT !.op = op, !.pc = pc, !.uid = u, !.a = a, !.b = b, !.txt = txt]

\* sent is the response the latest step sent, if it sent one: the request it
\* answers (op, uid, a, b), the status, the usernames of the Review objects
\* and the imageUrls of the Teacher objects in its body.
NoSent ==
  [op |-> "none", uid |-> Null, a |-> Null, b |-> Null, status |-> 0,
   names |-> {}, images |-> {}, tok |-> MissingToken]

Response(r, status, names) ==
  [op |-> r.op, uid |-> r.uid, a |-> r.a, b |-> r.b, status |-> status,
   names |-> names, images |-> {}, tok |-> r.tok]

\* nextId is the next ObjectId the store generates.

\* Slot i takes the next request: slots are used in order, each once.
Arrives(i) ==
  /\ reqs[i].pc = "idle"
  /\ \A j \in Slots : j < i => reqs[j].pc # "idle"

At(i, op, pc) == reqs[i].op = op /\ reqs[i].pc = pc

Goto(i, pc) ==
  /\ reqs' = [reqs EXCEPT ![i].pc = pc]
  /\ sent' = NoSent

Respond(i, status, names) ==
  /\ sent' = Response(reqs[i], status, names)
  /\ reqs' = [reqs EXCEPT ![i] = DoneReq]

\* res.json(teacherObj) / res.json(teachersData)
RespondTeachers(i, images) ==
  /\ sent' = [Response(reqs[i], 200, {}) EXCEPT !.images = images]
  /\ reqs' = [reqs EXCEPT ![i] = DoneReq]

InFlight(i) == reqs[i].pc \notin {"idle", "done"}

-----------------------------------------------------------------------------
Init ==
  /\ users = [u \in UserIds |-> InitialUser(u)]
  /\ schools = SchoolIds
  /\ classes = [c \in ClassIds |-> ClassSchema(c)]
  /\ teachers = [t \in TeacherIds |-> TeacherSchema(t)]
  /\ reviews = {}
  /\ ratings = {}
  /\ discussions = {}
  /\ config = AdminConfigSchema
  /\ nextId = 9
  /\ reqs = [i \in Slots |-> NoReq]
  /\ sent = NoSent

-----------------------------------------------------------------------------
\* Auth middleware: User.findById(decoded.userId); 401 when the user is gone.

\* The first store operation of each user route's handler.
FirstPc(op) ==
  CASE op = "postRatings" -> "findOne"
    [] op = "postReviews" -> "findById"
    [] op = "getReviews" -> "config"
    [] op = "myReview" -> "findOne"
    [] op = "setup" -> "findById"
    [] op = "postDiscussions" -> "findById"
    [] op = "getTeachers" -> "findById"
    [] op = "getTeacher" -> "findById"
    [] op = "putReviews" -> "findOne"

\* jwt.verify(token, JWT_SECRET) returns the payload
Verify(tok) == tok.kind = "signed"

\* The 401 of auth and adminAuth, sent before the handler has run.
Unauthorized(op, tok) ==
  [NoSent EXCEPT !.op = op, !.tok = tok, !.status = 401]

\* auth without the User.findById lookup
authSigned(tok) == Verify(tok)

\* auth calls next(): the token is signed and User.findById(decoded.userId)
\* finds the user
authNext(tok) == Verify(tok) /\ tok.userId \in DOMAIN users

auth(i, op, tok, a, b, txt) ==
  /\ Arrives(i)
  /\ IF authNext(tok)
       THEN /\ reqs' = [reqs EXCEPT ![i] =
                          [NewReq(op, FirstPc(op), tok.userId, a, b, txt)
                             EXCEPT !.tok = tok]]
            /\ sent' = NoSent
       ELSE /\ reqs' = [reqs EXCEPT ![i] = DoneReq]
            /\ sent' = Unauthorized(op, tok)
  /\ UNCHANGED store

\* adminAuth calls next(): the token is signed and its payload has isAdmin
adminAuth(tok) == Verify(tok) /\ tok.isAdmin

\* adminAuth answers 401 'Admin authentication required'
AdminUnauthorized(i, op, tok) ==
  /\ Arrives(i)
  /\ ~adminAuth(tok)
  /\ reqs' = [reqs EXCEPT ![i] = DoneReq]
  /\ sent' = Unauthorized(op, tok)
  /\ UNCHANGED store

-----------------------------------------------------------------------------
\* POST /api/register

\* The usernames registrations ask for: one that is taken at first, one new.
UsernameInputs == {UserName(1), "carol"}

\* User.findOne({ username })
Taken(username) == \E u \in DOMAIN users : users[u].username = username

\* a users collection without the index on username
NoIndex(username) == FALSE

\* username: { unique: true }: the index refuses a second document with the
\* same username (duplicate key error)
UniqueIndex(username) == Taken(username)

\* POST /api/register: User.findOne({ username })
Register_findOne(i, username) ==
  /\ Arrives(i)
  /\ LET r == NewReq("register", "create", Null, Null, Null, username) IN
       IF Taken(username)
         THEN \* 'Username already exists'
              /\ reqs' = [reqs EXCEPT ![i] = DoneReq]
              /\ sent' = Response(r, 400, {})
         ELSE /\ reqs' = [reqs EXCEPT ![i] = r]
              /\ sent' = NoSent
  /\ UNCHANGED store

\* POST /api/register: bcrypt.hash, User.create({ username, password })
Register_create(i) ==
  /\ At(i, "register", "create")
  /\ LET r == reqs[i] IN
       IF UniqueIndex(r.txt)
         THEN \* duplicate key error, caught
              /\ Respond(i, 400, {})
              /\ UNCHANGED store
         ELSE /\ users' = [u \in DOMAIN users \cup {nextId} |->
                            IF u = nextId
                              THEN [UserSchema(u) EXCEPT !.username = r.txt]
                              ELSE users[u]]
              /\ nextId' = nextId + 1
              /\ Respond(i, 200, {})
              /\ UNCHANGED <<schools, classes, teachers, reviews, ratings,
                             discussions, config>>

-----------------------------------------------------------------------------
\* POST /api/teachers/:teacherId/ratings

RatingsOf(t, u) == {r \in ratings : r.teacher = t /\ r.user = u}

RatingsFor(t) == {r \in ratings : r.teacher = t}

RECURSIVE SumRatings(_)
SumRatings(S) ==
  IF S = {} THEN 0
  ELSE LET r == CHOOSE x \in S : TRUE IN r.rating + SumRatings(S \ {r})

RECURSIVE GCD(_, _)
GCD(m, n) == IF n = 0 THEN m ELSE GCD(n, m % n)

\* sum / count as a real number (count > 0): the reduced fraction of a sum
\* in half units over the count
Quotient(sum, cnt) ==
  <<sum \div GCD(sum, 2 * cnt), (2 * cnt) \div GCD(sum, 2 * cnt)>>

\* existingRating.rating = rating; existingRating.save()
SaveStale(rs, id, v) == rs

Save(rs, id, v) == {IF e.id = id THEN [e EXCEPT !.rating = v] ELSE e : e \in rs}

\* Rating.findOne({teacher, user})
PostRatings_findOne(i) ==
  /\ At(i, "postRatings", "findOne")
  /\ LET r == reqs[i] IN
       \/ /\ RatingsOf(r.a, r.uid) = {}
          /\ reqs' = [reqs EXCEPT ![i].pc = "write", ![i].found = Null]
       \/ \E e \in RatingsOf(r.a, r.uid) :
            reqs' = [reqs EXCEPT ![i].pc = "write", ![i].found = e.id]
  /\ sent' = NoSent
  /\ UNCHANGED store

\* existingRating.save() or Rating.create(...)
PostRatings_write(i) ==
  /\ At(i, "postRatings", "write")
  /\ LET r == reqs[i] IN
       IF ~RatingValid(r.b)
         THEN \* ValidationError
              /\ Respond(i, 400, {})
              /\ UNCHANGED store
       ELSE IF r.found # Null
         THEN IF \E e \in ratings : e.id = r.found
                THEN /\ ratings' = Save(ratings, r.found, r.b)
                     /\ Goto(i, "find")
                     /\ UNCHANGED <<users, schools, classes, teachers, reviews,
                                    discussions, config, nextId>>
                ELSE \* DocumentNotFoundError: the document was deleted meanwhile
                     /\ Respond(i, 400, {})
                     /\ UNCHANGED store
         ELSE /\ ratings' = ratings \cup {RatingSchema(nextId, r.a, r.uid, r.b)}
              /\ nextId' = nextId + 1
              /\ Goto(i, "find")
              /\ UNCHANGED <<users, schools, classes, teachers, reviews,
                             discussions, config>>

\* Rating.find({teacher}) and the reduce over the result
PostRatings_find(i) ==
  /\ At(i, "postRatings", "find")
  /\ reqs' = [reqs EXCEPT ![i].pc = "update",
                          ![i].sum = SumRatings(RatingsFor(reqs[i].a)),
                          ![i].cnt = Cardinality(RatingsFor(reqs[i].a))]
  /\ sent' = NoSent
  /\ UNCHANGED store

\* Teacher.findByIdAndUpdate(teacherId, {averageRating, totalRatings})
PostRatings_update(i) ==
  /\ At(i, "postRatings", "update")
  /\ LET r == reqs[i] IN
       IF r.cnt = 0
         THEN \* 0 / 0 is NaN: the update fails to cast
              /\ Respond(i, 400, {})
              /\ UNCHANGED store
         ELSE /\ teachers' =
                   [t \in DOMAIN teachers |->
                      IF t = r.a
                        THEN [teachers[t] EXCEPT
                                !.averageRating = Quotient(r.sum, r.cnt),
                                !.totalRatings = r.cnt]
                        ELSE teachers[t]]
              /\ Respond(i, 200, {})
              /\ UNCHANGED <<users, schools, classes, reviews, ratings,
                             discussions, config, nextId>>

-----------------------------------------------------------------------------
\* POST /api/setup

\* User.findById(req.userId) and the isSetup test
Setup_findById(i) ==
  /\ At(i, "setup", "findById")
  /\ LET r == reqs[i] IN
       IF r.uid \notin DOMAIN users
         THEN \* user is null: TypeError, caught
              Respond(i, 400, {})
       ELSE IF users[r.uid].isSetup
         THEN \* 'Setup already completed'
              Respond(i, 400, {})
         ELSE Goto(i, "save")
  /\ UNCHANGED store

\* user.school = schoolId; user.class = classId; user.isSetup = true; user.save()
Setup_save(i) ==
  /\ At(i, "setup", "save")
  /\ LET r == reqs[i] IN
       IF r.uid \in DOMAIN users
         THEN /\ users' = [users EXCEPT ![r.uid].school = r.a,
                                        ![r.uid].class = r.b,
                                        ![r.uid].isSetup = TRUE]
              /\ Respond(i, 200, {})
         ELSE \* DocumentNotFoundError
              /\ Respond(i, 400, {})
              /\ UNCHANGED users
  /\ UNCHANGED <<schools, classes, teachers, reviews, ratings, discussions,
                 config, nextId>>

-----------------------------------------------------------------------------
\* Teacher routes

\* if (config && config.hideTeacherImages) teacherObj.imageUrl = ''
ShowImage(hide, imageUrl) == imageUrl

HideImage(hide, imageUrl) == IF hide THEN "" ELSE imageUrl

\* GET /api/teachers: User.findById(req.userId) and the isSetup test
GetTeachers_findById(i) ==
  /\ At(i, "getTeachers", "findById")
  /\ LET r == reqs[i] IN
       IF r.uid \notin DOMAIN users
         THEN \* user is null: TypeError, caught
              Respond(i, 400, {})
       ELSE IF ~users[r.uid].isSetup
         THEN \* 'Please complete setup first'
              Respond(i, 400, {})
         ELSE /\ reqs' = [reqs EXCEPT ![i].pc = "config",
                                      ![i].found = users[r.uid].class]
              /\ sent' = NoSent
  /\ UNCHANGED store

\* GET /api/teachers: AdminConfig.findOne()
GetTeachers_config(i) ==
  /\ At(i, "getTeachers", "config")
  /\ reqs' = [reqs EXCEPT ![i].pc = "find",
                          ![i].hide = config.hideTeacherImages]
  /\ sent' = NoSent
  /\ UNCHANGED store

\* GET /api/teachers: Teacher.find({class: user.class}) and the response
GetTeachers_find(i) ==
  /\ At(i, "getTeachers", "find")
  /\ LET r == reqs[i] IN
       RespondTeachers(i, {HideImage(r.hide, teachers[t].imageUrl) :
                             t \in {x \in DOMAIN teachers :
                                      teachers[x].class = r.found}})
  /\ UNCHANGED store

\* GET /api/teachers/:teacherId: Teacher.findById(teacherId)
GetTeacher_findById(i) ==
  /\ At(i, "getTeacher", "findById")
  /\ LET r == reqs[i] IN
       IF r.a \notin DOMAIN teachers
         THEN \* 'Teacher not found'
              Respond(i, 404, {})
         ELSE /\ reqs' = [reqs EXCEPT ![i].pc = "config",
                                      ![i].img = teachers[r.a].imageUrl]
              /\ sent' = NoSent
  /\ UNCHANGED store

\* GET /api/teachers/:teacherId: AdminConfig.findOne() and the response
GetTeacher_config(i) ==
  /\ At(i, "getTeacher", "config")
  /\ RespondTeachers(i, {HideImage(config.hideTeacherImages, reqs[i].img)})
  /\ UNCHANGED store

-----------------------------------------------------------------------------
\* Review routes

ReviewsOf(t, u) == {r \in reviews : r.teacher = t /\ r.user = u}

ReviewsFor(t) == {r \in reviews : r.teacher = t}

\* The moderation rewrite of GET /api/teachers/:teacherId/reviews
Anonymized(rs) == {"Anonymous" : r \in rs}

Usernames(rs) == {r.username : r \in rs}

\* GET /api/teachers/:teacherId/reviews: AdminConfig.findOne()
GetReviews_config(i) ==
  /\ At(i, "getReviews", "config")
  /\ reqs' = [reqs EXCEPT ![i].pc = "find",
                          ![i].anon = config.anonymousReviews]
  /\ sent' = NoSent
  /\ UNCHANGED store

\* GET /api/teachers/:teacherId/reviews: Review.find({teacher}) and the response
GetReviews_find(i) ==
  /\ At(i, "getReviews", "find")
  /\ LET r == reqs[i] IN
       Respond(i, 200, IF r.anon THEN Anonymized(ReviewsFor(r.a))
                                 ELSE Usernames(ReviewsFor(r.a)))
  /\ UNCHANGED store

\* GET /api/teachers/:teacherId/my-review: Review.findOne({teacher, user})
MyReview_findOne(i) ==
  /\ At(i, "myReview", "findOne")
  /\ LET r == reqs[i] IN
       \/ /\ ReviewsOf(r.a, r.uid) = {}
          /\ Respond(i, 200, {})
       \/ \E e \in ReviewsOf(r.a, r.uid) : Respond(i, 200, Usernames({e}))
  /\ UNCHANGED store

\* POST /api/teachers/:teacherId/reviews: User.findById(req.userId)
PostReviews_findById(i) ==
  /\ At(i, "postReviews", "findById")
  /\ LET r == reqs[i] IN
       reqs' = [reqs EXCEPT
                  ![i].pc = "findOne",
                  ![i].found = IF r.uid \in DOMAIN users THEN r.uid ELSE Null,
                  ![i].uname = IF r.uid \in DOMAIN users
                                 THEN users[r.uid].username ELSE ""]
  /\ sent' = NoSent
  /\ UNCHANGED store

\* POST /api/teachers/:teacherId/reviews: Review.findOne({teacher, user})
PostReviews_findOne(i) ==
  /\ At(i, "postReviews", "findOne")
  /\ LET r == reqs[i] IN
       IF ReviewsOf(r.a, r.uid) # {}
         THEN \* 'You have already reviewed this teacher'
              Respond(i, 400, {})
         ELSE Goto(i, "create")
  /\ UNCHANGED store

\* POST /api/teachers/:teacherId/reviews: Review.create(...) and the response
PostReviews_create(i) ==
  /\ At(i, "postReviews", "create")
  /\ LET r == reqs[i] IN
       IF r.found = Null
         THEN \* user is null: user.username throws TypeError, caught
              /\ Respond(i, 400, {})
              /\ UNCHANGED store
         ELSE /\ reviews' = reviews \cup
                   {ReviewSchema(nextId, r.a, r.uid, r.uname, r.txt)}
              /\ nextId' = nextId + 1
              /\ Respond(i, 200, {r.uname})
              /\ UNCHANGED <<users, schools, classes, teachers, ratings,
                             discussions, config>>

-----------------------------------------------------------------------------
\* PUT /api/reviews/:reviewId

\* The :reviewId values requests carry: the first ObjectIds the store
\* generates, whether they have become Reviews or not.
ReviewIds == {9, 10}

\* Review.findOne({_id: reviewId}), whoever wrote it
FindAny(id, u) == {x \in reviews : x.id = id}

\* Review.findOne({_id: reviewId, user: req.userId})
FindOwn(id, u) == {x \in reviews : x.id = id /\ x.user = u}

\* Review.findOne, then review.text = text; review.updatedAt = new Date()
PutReviews_findOne(i) ==
  /\ At(i, "putReviews", "findOne")
  /\ LET r == reqs[i] IN
       IF FindOwn(r.a, r.uid) = {}
         THEN \* 'Review not found'
              Respond(i, 404, {})
         ELSE /\ reqs' = [reqs EXCEPT ![i].pc = "save", ![i].found = r.a,
                                      ![i].at = Now]
              /\ sent' = NoSent
  /\ UNCHANGED store

\* review.save() writes text and updatedAt to the stored document
PutReviews_save(i) ==
  /\ At(i, "putReviews", "save")
  /\ LET r == reqs[i]
         old == {x \in reviews : x.id = r.found}
     IN IF old = {}
          THEN \* the document is gone: DocumentNotFoundError, caught
               /\ Respond(i, 400, {})
               /\ UNCHANGED store
          ELSE /\ reviews' = (reviews \ old) \cup
                     {[x EXCEPT !.text = r.txt, !.updatedAt = r.at] : x \in old}
               /\ Respond(i, 200, {x.username : x \in old})
               /\ UNCHANGED <<users, schools, classes, teachers, ratings,
                              discussions, config, nextId>>

-----------------------------------------------------------------------------
\* POST /api/discussions

\* User.findById(req.userId)
PostDiscussions_findById(i) ==
  /\ At(i, "postDiscussions", "findById")
  /\ LET r == reqs[i] IN
       reqs' = [reqs EXCEPT
                  ![i].pc = "create",
                  ![i].found = IF r.uid \in DOMAIN users THEN r.uid ELSE Null,
                  ![i].uname = IF r.uid \in DOMAIN users
                                 THEN users[r.uid].username ELSE ""]
  /\ sent' = NoSent
  /\ UNCHANGED store

\* Discussion.create(...)
PostDiscussions_create(i) ==
  /\ At(i, "postDiscussions", "create")
  /\ LET r == reqs[i] IN
       IF r.found = Null
         THEN /\ Respond(i, 400, {})
              /\ UNCHANGED store
         ELSE /\ discussions' = discussions \cup
                   {DiscussionSchema(nextId, r.uid, r.uname)}
              /\ nextId' = nextId + 1
              /\ Respond(i, 200, {})
              /\ UNCHANGED <<users, schools, classes, teachers, reviews,
                             ratings, config>>

-----------------------------------------------------------------------------
\* Admin routes (adminAuth reads nothing from the store)

\* Model.findByIdAndDelete(id) on an id-indexed collection
FindByIdAndDelete(coll, id) == [x \in DOMAIN coll \ {id} |-> coll[x]]

\* Model.deleteMany({path: v}) on an id-indexed collection
DeleteNone(coll, path, v) == coll

DeleteMany(coll, path, v) ==
  [x \in {y \in DOMAIN coll : coll[y][path] # v} |-> coll[x]]

\* Model.deleteMany({path: v}) on a collection kept as a set of documents
DeleteManyOf(docs, path, v) == {d \in docs : d[path] # v}

\* PUT /api/admin/config: AdminConfig.findOne()
PutConfig_findOne(i, tok, anonymousReviews, hideTeacherImages) ==
  /\ Arrives(i)
  /\ adminAuth(tok)
  /\ reqs' = [reqs EXCEPT ![i] =
                [NewReq("putConfig", "save", Null, Null, Null, "") EXCEPT
                   !.tok = tok,
                   !.anon = IF anonymousReviews # Undefined
                              THEN anonymousReviews = "true"
                              ELSE config.anonymousReviews,
                   !.hide = IF hideTeacherImages # Undefined
                              THEN hideTeacherImages = "true"
                              ELSE config.hideTeacherImages,
                   !.a = IF anonymousReviews # Undefined
                              /\ (anonymousReviews = "true") # config.anonymousReviews
                           THEN 1 ELSE 0,
                   !.b = IF hideTeacherImages # Undefined
                              /\ (hideTeacherImages = "true") # config.hideTeacherImages
                           THEN 1 ELSE 0]]
  /\ sent' = NoSent
  /\ UNCHANGED store

\* PUT /api/admin/config: config.save() writes the fields the handler changed
PutConfig_save(i) ==
  /\ At(i, "putConfig", "save")
  /\ LET r == reqs[i] IN
       config' = [anonymousReviews |->
                    IF r.a = 1 THEN r.anon ELSE config.anonymousReviews,
                  hideTeacherImages |->
                    IF r.b = 1 THEN r.hide ELSE config.hideTeacherImages]
  /\ Respond(i, 200, {})
  /\ UNCHANGED <<users, schools, classes, teachers, reviews, ratings,
                 discussions, nextId>>

\* DELETE /api/admin/schools/:schoolId: School.findByIdAndDelete
DeleteSchool_school(i, tok, s) ==
  /\ Arrives(i)
  /\ adminAuth(tok)
  /\ schools' = schools \ {s}
  /\ reqs' = [reqs EXCEPT ![i] =
                [NewReq("deleteSchool", "classes", Null, s, Null, "") EXCEPT !.tok = tok]]
  /\ sent' = NoSent
  /\ UNCHANGED <<users, classes, teachers, reviews, ratings, discussions,
                 config, nextId>>

\* DELETE /api/admin/schools/:schoolId: Class.deleteMany({school})
DeleteSchool_classes(i) ==
  /\ At(i, "deleteSchool", "classes")
  /\ classes' = DeleteMany(classes, "school", reqs[i].a)
  /\ Goto(i, "teachers")
  /\ UNCHANGED <<users, schools, teachers, reviews, ratings, discussions,
                 config, nextId>>

\* Teacher.deleteMany({school}) that also removes the Ratings of the teachers
\* it removes.
DeleteSchool_teachersAndRatings(i) ==
  /\ At(i, "deleteSchool", "teachers")
  /\ teachers' = DeleteMany(teachers, "school", reqs[i].a)
  /\ ratings' = {r \in ratings : r.teacher \notin DOMAIN teachers
                                 \/ r.teacher \in DOMAIN teachers'}
  /\ Respond(i, 200, {})
  /\ UNCHANGED <<users, schools, classes, reviews, discussions, config, nextId>>

\* DELETE /api/admin/schools/:schoolId: Teacher.deleteMany({school})
DeleteSchool_teachers(i) ==
  /\ At(i, "deleteSchool", "teachers")
  /\ teachers' = DeleteMany(teachers, "school", reqs[i].a)
  /\ Respond(i, 200, {})
  /\ UNCHANGED <<users, schools, classes, reviews, ratings, discussions,
                 config, nextId>>

\* DELETE /api/admin/classes/:classId: Class.findByIdAndDelete
DeleteClass_class(i, tok, c) ==
  /\ Arrives(i)
  /\ adminAuth(tok)
  /\ classes' = FindByIdAndDelete(classes, c)
  /\ reqs' = [reqs EXCEPT ![i] =
                [NewReq("deleteClass", "teachers", Null, c, Null, "") EXCEPT !.tok = tok]]
  /\ sent' = NoSent
  /\ UNCHANGED <<users, schools, teachers, reviews, ratings, discussions,
                 config, nextId>>

\* DELETE /api/admin/classes/:classId: Teacher.deleteMany({class})
DeleteClass_teachers(i) ==
  /\ At(i, "deleteClass", "teachers")
  /\ teachers' = DeleteMany(teachers, "class", reqs[i].a)
  /\ Respond(i, 200, {})
  /\ UNCHANGED <<users, schools, classes, reviews, ratings, discussions,
                 config, nextId>>

\* The body of POST /api/admin/teachers and PUT /api/admin/teachers/:id: the
\* fields the handlers read (of which the model keeps imageUrl, classId and
\* schoolId) and fields they do not read.
TeacherBodies ==
  {[imageUrl |-> "new", classId |-> 5, schoolId |-> 3, class |-> 6,
    school |-> 4, averageRating |-> <<5, 1>>, totalRatings |-> 9]}

\* POST /api/admin/teachers: Teacher.create with the schema's defaults
PostAdminTeachers(i, tok, body) ==
  /\ Arrives(i)
  /\ adminAuth(tok)
  /\ teachers' = [t \in DOMAIN teachers \cup {nextId} |->
                    IF t = nextId
                      THEN [class |-> body.classId, school |-> body.schoolId,
                            imageUrl |-> body.imageUrl, averageRating |-> Zero,
                            totalRatings |-> 0]
                      ELSE teachers[t]]
  /\ nextId' = nextId + 1
  /\ reqs' = [reqs EXCEPT ![i] = DoneReq]
  /\ sent' = Response([NewReq("postAdminTeachers", "create", Null, nextId,
                              Null, "") EXCEPT !.tok = tok], 200, {})
  /\ UNCHANGED <<users, schools, classes, reviews, ratings, discussions,
                 config>>

\* an update with the whole request body
UpdateWith(doc, body) ==
  [doc EXCEPT !.imageUrl = body.imageUrl, !.class = body.class,
              !.school = body.school, !.averageRating = body.averageRating,
              !.totalRatings = body.totalRatings]

\* the update { name, qualifications, imageUrl }
Update(doc, body) == [doc EXCEPT !.imageUrl = body.imageUrl]

\* PUT /api/admin/teachers/:teacherId: Teacher.findByIdAndUpdate (no
\* document with that id: nothing is updated, the answer is still 200)
PutAdminTeachers(i, tok, t, body) ==
  /\ Arrives(i)
  /\ adminAuth(tok)
  /\ teachers' = [x \in DOMAIN teachers |->
                    IF x = t THEN Update(teachers[x], body) ELSE teachers[x]]
  /\ reqs' = [reqs EXCEPT ![i] = DoneReq]
  /\ sent' = Response([NewReq("putAdminTeachers", "update", Null, t, Null, "")
                         EXCEPT !.tok = tok], 200, {})
  /\ UNCHANGED <<users, schools, classes, reviews, ratings, discussions,
                 config, nextId>>

\* DELETE /api/admin/teachers/:teacherId: Teacher.findByIdAndDelete
DeleteTeacher_teacher(i, tok, t) ==
  /\ Arrives(i)
  /\ adminAuth(tok)
  /\ teachers' = FindByIdAndDelete(teachers, t)
  /\ reqs' = [reqs EXCEPT ![i] =
                [NewReq("deleteTeacher", "reviews", Null, t, Null, "") EXCEPT !.tok = tok]]
  /\ sent' = NoSent
  /\ UNCHANGED <<users, schools, classes, reviews, ratings, discussions,
                 config, nextId>>

\* DELETE /api/admin/teachers/:teacherId: Review.deleteMany({teacher})
DeleteTeacher_reviews(i) ==
  /\ At(i, "deleteTeacher", "reviews")
  /\ reviews' = DeleteManyOf(reviews, "teacher", reqs[i].a)
  /\ Goto(i, "ratings")
  /\ UNCHANGED <<users, schools, classes, teachers, ratings, discussions,
                 config, nextId>>

\* DELETE /api/admin/teachers/:teacherId: Rating.deleteMany({teacher})
DeleteTeacher_ratings(i) ==
  /\ At(i, "deleteTeacher", "ratings")
  /\ ratings' = DeleteManyOf(ratings, "teacher", reqs[i].a)
  /\ Respond(i, 200, {})
  /\ UNCHANGED <<users, schools, classes, teachers, reviews, discussions,
                 config, nextId>>

\* DELETE /api/admin/users/:userId: User.findByIdAndDelete
DeleteUser_user(i, tok, u) ==
  /\ Arrives(i)
  /\ adminAuth(tok)
  /\ users' = FindByIdAndDelete(users, u)
  /\ reqs' = [reqs EXCEPT ![i] =
                [NewReq("deleteUser", "reviews", Null, u, Null, "") EXCEPT !.tok = tok]]
  /\ sent' = NoSent
  /\ UNCHANGED <<schools, classes, teachers, reviews, ratings, discussions,
                 config, nextId>>

\* DELETE /api/admin/users/:userId: Review.deleteMany({user})
DeleteUser_reviews(i) ==
  /\ At(i, "deleteUser", "reviews")
  /\ reviews' = DeleteManyOf(reviews, "user", reqs[i].a)
  /\ Goto(i, "ratings")
  /\ UNCHANGED <<users, schools, classes, teachers, ratings, discussions,
                 config, nextId>>

\* DELETE /api/admin/users/:userId: Rating.deleteMany({user})
DeleteUser_ratings(i) ==
  /\ At(i, "deleteUser", "ratings")
  /\ ratings' = DeleteManyOf(ratings, "user", reqs[i].a)
  /\ Goto(i, "discussions")
  /\ UNCHANGED <<users, schools, classes, teachers, reviews, discussions,
                 config, nextId>>

\* DELETE /api/admin/users/:userId: Discussion.deleteMany({user})
DeleteUser_discussions(i) ==
  /\ At(i, "deleteUser", "discussions")
  /\ discussions' = DeleteManyOf(discussions, "user", reqs[i].a)
  /\ Respond(i, 200, {})
  /\ UNCHANGED <<users, schools, classes, teachers, reviews, ratings,
                 config, nextId>>

-----------------------------------------------------------------------------
\* The requests a client may send: route, token's user, path parameter, body.
UserRequests ==
  {<<"postRatings", u, t, v, "">> : u \in UserIds, t \in TeacherIds, v \in RatingInputs}
  \cup {<<"postReviews", u, t, Null, x>> : u \in UserIds, t \in TeacherIds, x \in TextInputs}
  \cup {<<"getReviews", u, t, Null, "">> : u \in UserIds, t \in TeacherIds}
  \cup {<<"myReview", u, t, Null, "">> : u \in UserIds, t \in TeacherIds}
  \cup {<<"setup", u, s, c, "">> :
          u \in UserIds, s \in SchoolIds \cup {Null}, c \in ClassIds \cup {Null}}
  \cup {<<"postDiscussions", u, Null, Null, "hello">> : u \in UserIds}
  \cup {<<"getTeachers", u, Null, Null, "">> : u \in UserIds}
  \cup {<<"getTeacher", u, t, Null, "">> : u \in UserIds, t \in TeacherIds}
  \cup {<<"putReviews", u, r, Null, "better">> : u \in UserIds, r \in ReviewIds}

\* The routes behind auth and behind adminAuth.
UserRoutes == {q[1] : q \in UserRequests}

AdminRoutes ==
  {"putConfig", "deleteSchool", "deleteClass", "deleteTeacher", "deleteUser",
   "postAdminTeachers", "putAdminTeachers"}

\* The tokens requests carry: a request to a user route has the token of a
\* user (who may have been deleted since login) or one of the others, whose
\* 401 comes before the handler reads the request's parameters.
OtherTokens == {MissingToken, ForgedToken, AdminToken}

Tokens == OtherTokens \cup {UserToken(u) : u \in UserIds}

\* A request arrives: its first store operation (auth's for a user route).
Arrival ==
  \/ \E i \in Slots, q \in UserRequests :
       auth(i, q[1], UserToken(q[2]), q[3], q[4], q[5])
  \/ \E i \in Slots, op \in UserRoutes, tok \in OtherTokens :
       auth(i, op, tok, Null, Null, "")
  \/ \E i \in Slots, n \in UsernameInputs : Register_findOne(i, n)
  \/ \E i \in Slots, tok \in Tokens, x \in BodyFlags, y \in BodyFlags :
       PutConfig_findOne(i, tok, x, y)
  \/ \E i \in Slots, tok \in Tokens, s \in SchoolIds :
       DeleteSchool_school(i, tok, s)
  \/ \E i \in Slots, tok \in Tokens, c \in ClassIds :
       DeleteClass_class(i, tok, c)
  \/ \E i \in Slots, tok \in Tokens, body \in TeacherBodies :
       PostAdminTeachers(i, tok, body)
  \/ \E i \in Slots, tok \in Tokens, t \in TeacherIds, body \in TeacherBodies :
       PutAdminTeachers(i, tok, t, body)
  \/ \E i \in Slots, tok \in Tokens, t \in TeacherIds :
       DeleteTeacher_teacher(i, tok, t)
  \/ \E i \in Slots, tok \in Tokens, u \in UserIds :
       DeleteUser_user(i, tok, u)
  \/ \E i \in Slots, op \in AdminRoutes, tok \in Tokens :
       AdminUnauthorized(i, op, tok)

\* A handler in flight performs its next store operation.
Step ==
  \/ \E i \in Slots : PostRatings_findOne(i)
  \/ \E i \in Slots : PostRatings_write(i)
  \/ \E i \in Slots : PostRatings_find(i)
  \/ \E i \in Slots : PostRatings_update(i)
  \/ \E i \in Slots : Setup_findById(i)
  \/ \E i \in Slots : Setup_save(i)
  \/ \E i \in Slots : GetTeachers_findById(i)
  \/ \E i \in Slots : GetTeachers_config(i)
  \/ \E i \in Slots : GetTeachers_find(i)
  \/ \E i \in Slots : GetTeacher_findById(i)
  \/ \E i \in Slots : GetTeacher_config(i)
  \/ \E i \in Slots : GetReviews_config(i)
  \/ \E i \in Slots : GetReviews_find(i)
  \/ \E i \in Slots : MyReview_findOne(i)
  \/ \E i \in Slots : PostReviews_findById(i)
  \/ \E i \in Slots : PostReviews_findOne(i)
  \/ \E i \in Slots : PostReviews_create(i)
  \/ \E i \in Slots : Register_create(i)
  \/ \E i \in Slots : PutReviews_findOne(i)
  \/ \E i \in Slots : PutReviews_save(i)
  \/ \E i \in Slots : PostDiscussions_findById(i)
  \/ \E i \in Slots : PostDiscussions_create(i)
  \/ \E i \in Slots : PutConfig_save(i)
  \/ \E i \in Slots : DeleteSchool_classes(i)
  \/ \E i \in Slots : DeleteSchool_teachers(i)
  \/ \E i \in Slots : DeleteClass_teachers(i)
  \/ \E i \in Slots : DeleteTeacher_reviews(i)
  \/ \E i \in Slots : DeleteTeacher_ratings(i)
  \/ \E i \in Slots : DeleteUser_reviews(i)
  \/ \E i \in Slots : DeleteUser_ratings(i)
  \/ \E i \in Slots : DeleteUser_discussions(i)

Quiet == \A i \in Slots : ~InFlight(i)

\* Requests arrive at any time: their handlers overlap.
Next == Arrival \/ Step

Spec == Init /\ [][Next]_vars

\* Each request arrives after the response to the one before it.
NextSeq == (Quiet /\ Arrival) \/ Step

SpecSeq == Init /\ [][NextSeq]_vars

\* The requests that write the users collection (registration, setup, the
\* admin's deletion of a user), overlapping.
NextUsers ==
  \/ \E i \in Slots, n \in UsernameInputs : Register_findOne(i, n)
  \/ \E i \in Slots : Register_create(i)
  \/ \E i \in Slots, u \in UserIds :
       \E s \in SchoolIds \cup {Null}, c \in ClassIds \cup {Null} :
         auth(i, "setup", UserToken(u), s, c, "")
  \/ \E i \in Slots : Setup_findById(i)
  \/ \E i \in Slots : Setup_save(i)
  \/ \E i \in Slots, u \in UserIds : DeleteUser_user(i, AdminToken, u)
  \/ \E i \in Slots : DeleteUser_reviews(i)
  \/ \E i \in Slots : DeleteUser_ratings(i)
  \/ \E i \in Slots : DeleteUser_discussions(i)

SpecUsers == Init /\ [][NextUsers]_vars

-----------------------------------------------------------------------------
\* Properties

RatingInFlight(t) ==
  \E i \in Slots : InFlight(i) /\ reqs[i].op = "postRatings" /\ reqs[i].a = t

\* No user of the initial store has been deleted (DELETE /api/admin/users
\* removes the User first).
NoUserDeleted == UserIds \subseteq DOMAIN users

\* Teacher t's stored aggregate is the count and the mean of its Ratings.
AggregateExact(t) ==
  /\ teachers[t].totalRatings = Cardinality(RatingsFor(t))
  /\ teachers[t].averageRating =
       Quotient(SumRatings(RatingsFor(t)), Cardinality(RatingsFor(t)))

\* C1: for every teacher T, once all rating submissions to T have completed
\* (overlapping ones included, nothing deleted), T.totalRatings is the number
\* of Ratings stored for T and T.averageRating is their mean.
C1_AverageIsMean ==
  \A t \in DOMAIN teachers :
    (~RatingInFlight(t) /\ NoUserDeleted /\ RatingsFor(t) # {})
      => AggregateExact(t)

\* C2: at most one Review exists for every (teacher, user) pair, in every
\* reachable state, whatever the interleaving of review creations.
C2_OneReviewPerPair ==
  \A t \in TeacherIds, u \in UserIds : Cardinality(ReviewsOf(t, u)) <= 1

\* C3: at most one Rating exists for every (teacher, user) pair, in every
\* reachable state, whatever the interleaving of rating submissions.
C3_OneRatingPerPair ==
  \A t \in TeacherIds, u \in UserIds : Cardinality(RatingsOf(t, u)) <= 1

\* C4: once a user's isSetup is true, no step changes that user's school or
\* class or sets isSetup back to false, and no setup request of that user
\* succeeds any more (so exactly one setup request of a user succeeds).
C4_SetupOnce ==
  [][\A u \in DOMAIN users \cap DOMAIN users' :
       users[u].isSetup =>
         /\ users'[u] = users[u]
         /\ ~(sent'.op = "setup" /\ sent'.uid = u /\ sent'.status = 200)]_vars

\* C5, first half: when a rating submission (T, U, r) has succeeded, the store
\* holds exactly one Rating for (T, U) and its value is r.
C5_StoredValue ==
  (sent.op = "postRatings" /\ sent.status = 200) =>
    \E e \in ratings :
      RatingsOf(sent.a, sent.uid) = {e} /\ e.rating = sent.b

\* C5, second half: the write of a rating submission creates the record when
\* (T, U) has none and otherwise overwrites it in place (same identifiers).
C5_InPlace ==
  \A i \in Slots :
    (At(i, "postRatings", "write") /\ reqs'[i].pc = "find") =>
      LET t == reqs[i].a
          u == reqs[i].uid
          before == {e.id : e \in RatingsOf(t, u)}
          after == {e.id : e \in {x \in ratings' : x.teacher = t /\ x.user = u}}
      IN IF before = {} THEN after = {nextId} ELSE after = before

\* C5: U's submissions r1 and then (after the first completed) r2 for T leave
\* exactly one Rating for (T, U), the record the first one created, with
\* value r2.
C5_Upsert == []C5_StoredValue /\ [][C5_InPlace]_vars

\* A second submission has overwritten the record: the teacher's aggregate
\* still shows the first value.
C5_Witness ==
  \E i \in Slots, e \in ratings :
    /\ At(i, "postRatings", "find")
    /\ reqs[i].found = e.id
    /\ RatingsOf(reqs[i].a, reqs[i].uid) = {e}
    /\ e.rating = reqs[i].b
    /\ reqs[i].a \in DOMAIN teachers
    /\ teachers[reqs[i].a].totalRatings = 1
    /\ teachers[reqs[i].a].averageRating # Quotient(e.rating, 1)

DeleteInFlight(op, id) ==
  \E i \in Slots : InFlight(i) /\ reqs[i].op = op /\ reqs[i].a = id

\* C6: once DELETE /api/admin/users/U has completed, no Review, Rating or
\* Discussion with user = U exists.
C6_NoRecordsOfDeletedUser ==
  \A u \in UserIds :
    (u \notin DOMAIN users /\ ~DeleteInFlight("deleteUser", u)) =>
      /\ \A r \in reviews : r.user # u
      /\ \A r \in ratings : r.user # u
      /\ \A d \in discussions : d.user # u

\* Teacher t was removed by DELETE /api/admin/teachers/t: no school or class
\* deletion has begun.
TeacherDeleted(t) ==
  /\ t \notin DOMAIN teachers
  /\ schools = SchoolIds
  /\ DOMAIN classes = ClassIds

\* C7: once DELETE /api/admin/teachers/T has completed, no Review and no
\* Rating with teacher = T exists.
C7_NoRecordsOfDeletedTeacher ==
  \A t \in TeacherIds :
    (TeacherDeleted(t) /\ ~DeleteInFlight("deleteTeacher", t)) =>
      /\ \A r \in reviews : r.teacher # t
      /\ \A r \in ratings : r.teacher # t

\* C8: when DELETE /api/admin/schools/S responds, no other request being in
\* flight, the store has no School S, no Class of S and no Teacher of S; when
\* DELETE /api/admin/classes/C responds, no Class C and no Teacher of C.
C8_Cascade ==
  /\ (sent.op = "deleteSchool" /\ sent.status = 200) =>
       /\ sent.a \notin schools
       /\ \A c \in DOMAIN classes : classes[c].school # sent.a
       /\ \A t \in DOMAIN teachers : teachers[t].school # sent.a
  /\ (sent.op = "deleteClass" /\ sent.status = 200) =>
       /\ sent.a \notin DOMAIN classes
       /\ \A t \in DOMAIN teachers : teachers[t].class # sent.a

\* School 3 was deleted with its class and teacher; school 4's remain.
C8_Witness ==
  /\ sent.op = "deleteSchool" /\ sent.status = 200 /\ sent.a = 3
  /\ schools = {4}
  /\ DOMAIN classes = {6}
  /\ DOMAIN teachers = {8}

\* A step of the handler of DELETE /api/admin/schools/s in slot i.
DeleteSchoolStep(i, s) ==
  /\ reqs'[i] # reqs[i]
  /\ \/ reqs[i].op = "deleteSchool" /\ reqs[i].a = s
     \/ reqs[i].pc = "idle" /\ reqs'[i].op = "deleteSchool" /\ reqs'[i].a = s

\* C9: DELETE /api/admin/schools/S changes no Review, Rating, User or
\* Discussion, and removes nothing but School S, the Classes of S and the
\* Teachers of S.
C9_Frame ==
  [][\A i \in Slots, s \in SchoolIds :
       DeleteSchoolStep(i, s) =>
         /\ UNCHANGED <<users, reviews, ratings, discussions>>
         /\ schools \ {s} \subseteq schools'
         /\ \A c \in DOMAIN classes :
              classes[c].school # s =>
                c \in DOMAIN classes' /\ classes'[c] = classes[c]
         /\ \A t \in DOMAIN teachers :
              teachers[t].school # s =>
                t \in DOMAIN teachers' /\ teachers'[t] = teachers[t]]_vars

\* The school's deletion has completed and a Rating of its removed teacher
\* is still stored.
C9_Witness ==
  /\ sent.op = "deleteSchool" /\ sent.status = 200
  /\ \E r \in ratings :
       /\ r.teacher \in TeacherIds \ DOMAIN teachers
       /\ TeacherSchema(r.teacher).school = sent.a

ReviewRoutes == {"getReviews", "myReview", "postReviews"}

\* C10: while anonymousReviews is true, every Review object in a response to
\* a user-authenticated request carries username "Anonymous".
C10_Anonymous ==
  (sent.op \in ReviewRoutes /\ sent.status = 200 /\ config.anonymousReviews)
    => sent.names \subseteq {"Anonymous"}

TeacherRoutes == {"getTeachers", "getTeacher"}

\* The stored imageUrls of the teachers a response to GET /api/teachers or
\* GET /api/teachers/:teacherId lists.
StoredImages ==
  IF sent.op = "getTeacher"
    THEN {teachers[t].imageUrl : t \in {sent.a} \cap DOMAIN teachers}
    ELSE {teachers[t].imageUrl :
            t \in {x \in DOMAIN teachers :
                     teachers[x].class = users[sent.uid].class}}

\* C11, the responses: a teacher read served while hideTeacherImages is true
\* returns imageUrl "" for every teacher, one served while it is false
\* returns the stored imageUrls.
C11_Redacted ==
  (sent.op \in TeacherRoutes /\ sent.status = 200) =>
    IF config.hideTeacherImages
      THEN sent.images \subseteq {""}
      ELSE sent.images = StoredImages

\* C11, the store: no step of PUT /api/admin/config or of a teacher read
\* changes a stored Teacher.
C11_Stored ==
  \A i \in Slots :
    (reqs'[i] # reqs[i]
       /\ (reqs[i].op \in TeacherRoutes \cup {"putConfig"}
             \/ reqs'[i].op \in TeacherRoutes \cup {"putConfig"}))
      => teachers' = teachers

\* C11: once PUT /api/admin/config has set hideTeacherImages, the teacher
\* reads that follow return imageUrl "" until the flag is reset, then the
\* stored URLs again; the stored Teacher.imageUrl never changes by it.
C11_HideImages == []C11_Redacted /\ [][C11_Stored]_vars

\* A teacher read answered with a blanked imageUrl while the stored one is
\* still "img".
C11_Witness ==
  /\ sent.op = "getTeachers" /\ sent.status = 200
  /\ config.hideTeacherImages
  /\ sent.images = {""}
  /\ \E t \in DOMAIN teachers :
       teachers[t].class = users[sent.uid].class /\ teachers[t].imageUrl = "img"

\* The request that arrived in slot i in this step: in flight, or already
\* answered.
Arrived(i) == IF reqs'[i].pc = "done" THEN sent' ELSE reqs'[i]

\* C12: a request to a user route whose token is missing, not signed with
\* the secret, or names a user that no longer exists, and a request to an
\* admin route whose token does not carry isAdmin = true, is answered 401
\* and leaves the store as it was; its handler does not run.
C12_Unauthorized ==
  [][\A i \in Slots :
       (reqs[i].pc = "idle" /\ reqs'[i].pc # "idle") =>
         LET q == Arrived(i) IN
           ((q.op \in UserRoutes
               /\ ~(q.tok.kind = "signed" /\ q.tok.userId \in DOMAIN users))
            \/ (q.op \in AdminRoutes
               /\ ~(q.tok.kind = "signed" /\ q.tok.isAdmin)))
             => /\ reqs'[i].pc = "done"
                /\ sent'.status = 401
                /\ store' = store]_vars

\* A deleted user's signed token has been refused on a user route.
C12_Witness ==
  /\ sent.op \in UserRoutes /\ sent.status = 401
  /\ sent.tok.kind = "signed" /\ ~sent.tok.isAdmin
  /\ sent.tok.userId \notin DOMAIN users

\* A user's signed token has been refused on an admin route.
C12_WitnessAdmin ==
  /\ sent.op \in AdminRoutes /\ sent.status = 401
  /\ sent.tok.kind = "signed" /\ sent.tok.userId \in DOMAIN users

\* y is x with, at most, another text and another updatedAt.
Edited(x, y) == [y EXCEPT !.text = x.text, !.updatedAt = x.updatedAt] = x

\* C13, one step of PUT /api/reviews/R by user U: when U owns no Review R the
\* step answers 404 and leaves every Review as it was; otherwise the Reviews
\* change in R's text and updatedAt at most, and the request completes with
\* 200 and R carrying the submitted text.
C13_Step(i) ==
  LET r == reqs[i]
      own == {x \in reviews : x.id = r.a /\ x.user = r.uid}
  IN IF own = {}
       THEN /\ reviews' = reviews
            /\ reqs'[i].pc = "done" /\ sent'.status = 404
       ELSE /\ \E x \in own, y \in reviews' :
                 /\ reviews' \ {y} = reviews \ {x}
                 /\ Edited(x, y)
                 /\ reqs'[i].pc = "done" =>
                      (sent'.status = 200 /\ y.text = r.txt
                         /\ y.updatedAt > x.updatedAt)

C13_EditOwnReview ==
  [][\A i \in Slots :
       (reqs[i].op = "putReviews" /\ reqs'[i] # reqs[i]) => C13_Step(i)]_vars

\* The owner has edited a review: text replaced, updatedAt later than
\* createdAt.
C13_Witness ==
  /\ sent.op = "putReviews" /\ sent.status = 200
  /\ \E x \in reviews :
       /\ x.id = sent.a /\ x.user = sent.uid
       /\ x.text = "better" /\ x.updatedAt > x.createdAt

\* A user who does not own the review has been answered 404.
C13_WitnessNotOwner ==
  /\ sent.op = "putReviews" /\ sent.status = 404
  /\ \E x \in reviews : x.id = sent.a /\ x.user # sent.uid

\* No two stored Users have the same username.
C14_Unique ==
  \A u, v \in DOMAIN users : users[u].username = users[v].username => u = v

\* One step of POST /api/register: no request gets past User.findOne with a
\* taken username; one that fails is answered 400 and creates no User, and
\* User.create with a username taken meanwhile fails likewise.
C14_Step(i) ==
  IF reqs[i].pc = "idle"
    THEN /\ users' = users
         /\ IF reqs'[i].pc = "done"
              THEN sent'.status = 400
              ELSE ~Taken(reqs'[i].txt)
    ELSE IF Taken(reqs[i].txt)
           THEN users' = users /\ sent'.status = 400
           ELSE /\ sent'.status = 200
                /\ \E u \in DOMAIN users' \ DOMAIN users :
                     /\ users'[u].username = reqs[i].txt
                     /\ DOMAIN users' = DOMAIN users \cup {u}

\* C14: usernames are unique in every reachable state, however registrations
\* interleave; a registration whose username is taken fails and creates no
\* User.
C14_UniqueUsernames ==
  /\ []C14_Unique
  /\ [][\A i \in Slots :
          (reqs'[i] # reqs[i]
             /\ (IF reqs[i].pc = "idle" THEN Arrived(i).op ELSE reqs[i].op)
                  = "register")
            => C14_Step(i)]_vars

\* Two registrations of the same new username overlapped: one has created
\* the User, the other has passed User.findOne and has yet to create.
C14_Witness ==
  \E i \in Slots :
    /\ At(i, "register", "create")
    /\ \E u \in DOMAIN users : u \notin UserIds /\ users[u].username = reqs[i].txt

\* The teacher/review features that setup gates.
GatedRoutes ==
  {"getTeachers", "getTeacher", "getReviews", "postReviews", "postRatings"}

\* C15: a request to list teachers, read a teacher, read a teacher's
\* reviews, or create a review or rating succeeds only for a user whose
\* isSetup is true.
C15_SetupGate ==
  (sent.op \in GatedRoutes /\ sent.status = 200 /\ sent.uid \in DOMAIN users)
    => users[sent.uid].isSetup

\* The integers 1..5, in half units.
IntegerRatings == {2 * n : n \in 1..5}

\* C16: every stored Rating has an integer value between 1 and 5.
C16_IntegerRating == \A r \in ratings : r.rating \in IntegerRatings

\* A request completes POST /api/teachers/t/ratings in this step.
RatingUpdate(t) ==
  \E i \in Slots :
    At(i, "postRatings", "update") /\ reqs[i].a = t /\ reqs'[i].pc = "done"

\* C17: a stored Teacher's averageRating and totalRatings change only in the
\* last step of a rating submission for that teacher, its class and school
\* never change (whatever the body of an admin update holds), and a Teacher
\* the admin creates starts with averageRating 0 and totalRatings 0.
C17_AggregateOwner ==
  [][\A t \in DOMAIN teachers' :
       IF t \in DOMAIN teachers
         THEN /\ (teachers'[t].averageRating # teachers[t].averageRating
                    \/ teachers'[t].totalRatings # teachers[t].totalRatings)
                   => RatingUpdate(t)
              /\ teachers'[t].class = teachers[t].class
              /\ teachers'[t].school = teachers[t].school
         ELSE /\ teachers'[t].averageRating = Zero
              /\ teachers'[t].totalRatings = 0]_vars

\* The admin has updated a teacher that has one rating: the imageUrl is the
\* body's, the aggregate and the class are not.
C17_Witness ==
  /\ sent.op = "putAdminTeachers" /\ sent.status = 200
  /\ sent.a \in DOMAIN teachers
  /\ teachers[sent.a].imageUrl = "new"
  /\ teachers[sent.a].totalRatings = 1
  /\ teachers[sent.a].class = sent.a - 2

\* The admin has created a teacher.
C17_WitnessCreate ==
  /\ sent.op = "postAdminTeachers" /\ sent.status = 200
  /\ sent.a \in DOMAIN teachers /\ sent.a \notin TeacherIds

\* The mean of teacher t's stored Ratings, 0 when there are none.
MeanRating(t) ==
  IF RatingsFor(t) = {}
    THEN Zero
    ELSE Quotient(SumRatings(RatingsFor(t)), Cardinality(RatingsFor(t)))

\* C18: whenever no request is in flight, every stored Teacher's
\* totalRatings is the number of Ratings stored for it and its averageRating
\* is their mean (0 with no Rating), admin deletions included.
C18_QuiescentAggregate ==
  Quiet =>
    \A t \in DOMAIN teachers :
      /\ teachers[t].totalRatings = Cardinality(RatingsFor(t))
      /\ teachers[t].averageRating = MeanRating(t)

\* The identifiers of the stored Reviews and Ratings.
RecordIds == {x.id : x \in reviews} \cup {x.id : x \in ratings}

\* C19: a Review or Rating is created only for a teacher that is stored when
\* it is created: a submission whose :teacherId names no Teacher creates no
\* record.
C19_TeacherExists ==
  [][/\ \A x \in reviews' : x.id \notin RecordIds => x.teacher \in DOMAIN teachers
     /\ \A x \in ratings' : x.id \notin RecordIds => x.teacher \in DOMAIN teachers
    ]_vars

\* C20: a step that sets a user's isSetup sets its school and class to a
\* stored School and a stored Class of that School.
C20_SetupBinding ==
  [][\A u \in DOMAIN users \cap DOMAIN users' :
       (~users[u].isSetup /\ users'[u].isSetup) =>
         /\ users'[u].school \in schools
         /\ users'[u].class \in DOMAIN classes
         /\ classes[users'[u].class].school = users'[u].school]_vars

====
